---- MODULE Spec2Model ----
(***************************************************************************)
(* Referral payout backend (backend/main.py): the user registry, the       *)
(* pending-request moderation workflow and the transaction ledger, as the  *)
(* FastAPI handlers of main.py implement them over the three tables        *)
(* users, pending_users and txlogs.                                        *)
(*                                                                         *)
(* A table is the sequence of its rows in ascending primary-key order.     *)
(* Every handler runs in its own SQLAlchemy session and ends in one        *)
(* db.commit(); a request is one atomic step of Spec.                      *)
(* Float columns (amount, total_paid) hold small whole numbers here, on    *)
(* which float addition is exact.                                          *)
(*                                                                         *)
(* Four specifications run the handlers one request at a time on           *)
(* different traffic: Spec sends every identity through the registry and   *)
(* the moderation workflow with a thin ledger; SpecLedger keeps one        *)
(* identity per user id and sends every kind of record call (amounts       *)
(* below, at and above zero, every spelling of the status, both user ids); *)
(* SpecAuth sends every route with and without a valid session;            *)
(* SpecCreate sends POST /users the JSON bodies a client may write, with   *)
(* and without a status key. A fifth, SpecConc, lets two requests overlap: *)
(* each handler is split into its round trips to the database (its         *)
(* queries, its db.commit(), the reload of a row after the commit), a     *)
(* request may die between two of them, and the database is SQLite or      *)
(* PostgreSQL: a session addresses the rows it loaded by primary key, and  *)
(* keys records the key of every row.                                      *)
(***************************************************************************)
EXTENDS Integers, Sequences, FiniteSets, TLC

VARIABLES users, pending_users, txlogs, resp, sessions, keys

vars == <<users, pending_users, txlogs, resp, sessions, keys>>
db == <<users, pending_users, txlogs>>

(***************************************************************************)
(* Bounds of the model and the request inputs.                             *)
(***************************************************************************)
MaxTx == 2

UserIds == {"u1", "u2"}

\* the request handlers that can be between their first query and their
\* db.commit() at the same time (one SQLAlchemy session each)
Workers == {"w1", "w2"}
\* what a request presents as its session: the admin's unexpired token, no
\* token at all, a token that does not decode (bad signature, expired), or a
\* well-signed token whose subject is not the admin
Credentials == {"valid", "missing", "undecodable", "stranger"}

\* the people who fill in the form: each has one email and one payout profile
Ann == [nick |-> "ann", email |-> "a@b.com", wallet |-> "0xabc", network |-> "ERC20"]
Bob == [nick |-> "bob", email |-> "c@d.com", wallet |-> "Txyz", network |-> "TRC20"]

\* schemas.UserCreate: user_id, nick, email, wallet, network
UserCreateOf(ids, people) ==
    { [user_id |-> i, nick |-> p.nick, email |-> p.email,
       wallet |-> p.wallet, network |-> p.network] : i \in ids, p \in people }

\* schemas.UserStatus = Literal["pending", "approved", "denied"]
UserStatus == {"pending", "approved", "denied"}

\* schemas.TxCreate: amount is any float, status and tx_hash are required strings
TxCreateOf(ids, amounts, statuses) ==
    { [user_id |-> i, amount |-> a, status |-> s, tx_hash |-> "0xaa",
       network |-> "ERC20", meta |-> "None"] :
      i \in ids, a \in amounts, s \in statuses }

\* schemas.PayIn: tx_hash defaults to "", status defaults to "success"
PayInOf(ids, amounts, hashes, statuses) ==
    { [user_id |-> i, amount |-> a, network |-> "ERC20", tx_hash |-> h,
       status |-> s] :
      i \in ids, a \in amounts, h \in hashes, s \in statuses }

\* Registry-centred traffic: every identity, a thin ledger
UserCreate == UserCreateOf(UserIds, {Ann, Bob})
StatusInputs == UserStatus \cup {"banned"}
TxCreate == TxCreateOf({"u1"}, {1}, {"SUCCESS", "failed"})
PayIn == PayInOf({"u1"}, {0, 1}, {"0xaa"}, {"", "failed"})

\* Ledger-centred traffic: one identity per user id, every kind of record call
Amounts == {-1, 0, 1}
LedgerUserCreate == UserCreateOf({"u1"}, {Ann}) \cup UserCreateOf({"u2"}, {Bob})
LedgerPublic == UserCreateOf({"u2"}, {Bob})
LedgerTxCreate == TxCreateOf(UserIds, Amounts, {"success", "SUCCESS", "failed"})
LedgerPayIn == PayInOf(UserIds, Amounts, {""}, {"", "SUCCESS", "failed"})

\* uuid4-derived hashes pay() can synthesize
GenHashes == {"0xgen"}

(***************************************************************************)
(* Helpers.                                                                *)
(***************************************************************************)
\* str.lower() on the status strings of the model
Lower(s) == CASE s = "SUCCESS" -> "success"
              [] s = "FAILED" -> "failed"
              [] OTHER -> s

\* p.status or "success" / t.status or "": a falsy (empty) string takes the default
OrDefault(s, d) == IF s = "" THEN d ELSE s

\* the sequence without its k-th row (db.delete of one row)
Remove(table, k) == [j \in 1..(Len(table) - 1) |->
                        IF j < k THEN table[j] ELSE table[j + 1]]

\* db.query(T).filter(T.user_id == uid).first(): the number of the first
\* row of the table carrying uid, 0 when there is none
FirstIndex(table, uid) ==
    IF \E k \in 1..Len(table) : table[k].user_id = uid
    THEN CHOOSE k \in 1..Len(table) :
            /\ table[k].user_id = uid
            /\ \A j \in 1..(k - 1) : table[j].user_id # uid
    ELSE 0

Reply(op, code, detail) == [op |-> op, code |-> code, detail |-> detail]

\* mutant of require_auth: the token is read without verifying it
require_auth_Unverified(cred) == cred # "missing"

\* auth.require_auth: the session token must decode and name the admin
require_auth(cred) == cred = "valid"

\* the HTTPException(401) require_auth raises before the handler runs
Unauthorized(op, cred) ==
    /\ resp' = Reply(op, 401,
                     \* the decoder's message follows "Invalid or expired session"
                     CASE cred = "undecodable" -> "Invalid or expired session"
                       [] cred = "stranger" -> "Unauthorized subject"
                       [] OTHER -> "Unauthenticated")
    /\ UNCHANGED db

\* the sum of the amounts of the Transactions of log that carry uid and a
\* status that lowercases to "success"
RECURSIVE SumSuccess(_, _)
SumSuccess(log, uid) ==
    IF log = <<>> THEN 0
    ELSE (IF log[1].user_id = uid /\ Lower(log[1].status) = "success"
          THEN log[1].amount ELSE 0) + SumSuccess(Tail(log), uid)

\* mutant of User: a new row takes over the total the ledger already holds
\* for its user_id
User_LedgerTotal(u) ==
    [user_id |-> u.user_id, nick |-> u.nick, email |-> u.email,
     wallet |-> u.wallet, network |-> u.network,
     total_paid |-> SumSuccess(txlogs, u.user_id), status |-> "approved"]

\* mutant of User: the status column defaults to "pending"
User_DefaultPending(u) ==
    [user_id |-> u.user_id, nick |-> u.nick, email |-> u.email,
     wallet |-> u.wallet, network |-> u.network,
     total_paid |-> 0, status |-> "pending"]

\* models.User: the row a User(...) built without total_paid and status gets
\* from the column defaults at INSERT
User(u) == [user_id |-> u.user_id, nick |-> u.nick, email |-> u.email,
            wallet |-> u.wallet, network |-> u.network,
            total_paid |-> 0, status |-> "approved"]

\* main.PendingUser
PendingUser(u) == [user_id |-> u.user_id, nick |-> u.nick, email |-> u.email,
                   wallet |-> u.wallet, network |-> u.network]

\* unique=True on users.user_id: the INSERT is refused when the key is taken
UserIdFree(uid) == \A k \in 1..Len(users) : users[k].user_id # uid

\* a handler slot with no request in it
Idle == [op |-> "idle"]

\* the databases db.py connects to: SQLite when DATABASE_URL is unset,
\* PostgreSQL otherwise
Engines == {"sqlite", "postgresql"}

\* the empty tables of Base.metadata.create_all on the database e
Start(e) ==
    /\ users = <<>>
    /\ pending_users = <<>>
    /\ txlogs = <<>>
    /\ resp = Reply("none", 0, "")
    /\ sessions = [w \in Workers |-> Idle]
    /\ keys = [engine |-> e,
               ids |-> [users |-> <<>>, pending_users |-> <<>>]]

\* DATABASE_URL unset. The requests run one at a time address rows by
\* user_id alone and behave alike on both databases; only the overlapping
\* requests keep track of keys.
Init == Start("sqlite")

(***************************************************************************)
(* Users.                                                                  *)
(***************************************************************************)
\* mutant of ExistsUser: the duplicate test looks at user_id alone
ExistsUser_IdOnly(uid, email) ==
    \E k \in 1..Len(users) : users[k].user_id = uid

\* mutant of ExistsUser: the duplicate test looks at email alone
ExistsUser_EmailOnly(uid, email) ==
    \E k \in 1..Len(users) : users[k].email = email

\* db.query(User).filter(or_(User.user_id == uid, User.email == email)).first()
\* is not None: the duplicate test of create_user, public_submit and
\* approve_pending
ExistsUser(uid, email) ==
    \E k \in 1..Len(users) : users[k].user_id = uid \/ users[k].email = email

create_user(cred, u) ==
    IF ~require_auth(cred) THEN Unauthorized("create_user", cred)
    ELSE IF ExistsUser(u.user_id, u.email)
    THEN /\ resp' = Reply("create_user", 400, "User ID or email already exists")
         /\ UNCHANGED db
    ELSE IF ~UserIdFree(u.user_id)
    THEN /\ resp' = Reply("create_user", 500, "IntegrityError")
         /\ UNCHANGED db
    ELSE /\ users' = Append(users, User(u))
         /\ resp' = Reply("create_user", 200, "user")
         /\ UNCHANGED <<pending_users, txlogs>>

\* mutant of delete_user: the delete cascades to the Transactions of the user
delete_user_Cascade(cred, user_id) ==
    LET k == FirstIndex(users, user_id) IN
    IF ~require_auth(cred) THEN Unauthorized("delete_user", cred)
    ELSE IF k = 0
    THEN /\ resp' = Reply("delete_user", 404, "Not found")
         /\ UNCHANGED db
    ELSE /\ users' = Remove(users, k)
         /\ txlogs' = SelectSeq(txlogs, LAMBDA r : r.user_id # user_id)
         /\ resp' = Reply("delete_user", 204, "")
         /\ UNCHANGED pending_users

\* mutant of delete_user: the PendingRequest of the same user_id is deleted
\* along with the User
delete_user_PurgePending(cred, user_id) ==
    LET k == FirstIndex(users, user_id) IN
    IF ~require_auth(cred) THEN Unauthorized("delete_user", cred)
    ELSE IF k = 0
    THEN /\ resp' = Reply("delete_user", 404, "Not found")
         /\ UNCHANGED db
    ELSE /\ users' = Remove(users, k)
         /\ pending_users' =
               SelectSeq(pending_users, LAMBDA r : r.user_id # user_id)
         /\ resp' = Reply("delete_user", 204, "")
         /\ UNCHANGED txlogs

delete_user(cred, user_id) ==
    LET k == FirstIndex(users, user_id) IN
    IF ~require_auth(cred) THEN Unauthorized("delete_user", cred)
    ELSE IF k = 0
    THEN /\ resp' = Reply("delete_user", 404, "Not found")
         /\ UNCHANGED db
    ELSE /\ users' = Remove(users, k)
         /\ resp' = Reply("delete_user", 204, "")
         /\ UNCHANGED <<pending_users, txlogs>>

\* mutant of update_user_status: a denied User cannot be moved back to
\* approved
update_user_status_Guarded(cred, user_id, status) ==
    LET k == FirstIndex(users, user_id) IN
    IF ~require_auth(cred) THEN Unauthorized("update_user_status", cred)
    ELSE IF status \notin UserStatus
    THEN /\ resp' = Reply("update_user_status", 422, "validation error")
         /\ UNCHANGED db
    ELSE IF k = 0
    THEN /\ resp' = Reply("update_user_status", 404, "Not found")
         /\ UNCHANGED db
    ELSE IF users[k].status = "denied" /\ status = "approved"
    THEN /\ resp' = Reply("update_user_status", 409, "Illegal transition")
         /\ UNCHANGED db
    ELSE /\ users' = [users EXCEPT ![k].status = status]
         /\ resp' = Reply("update_user_status", 200, "user")
         /\ UNCHANGED <<pending_users, txlogs>>

update_user_status(cred, user_id, status) ==
    LET k == FirstIndex(users, user_id) IN
    IF ~require_auth(cred) THEN Unauthorized("update_user_status", cred)
    ELSE IF status \notin UserStatus
    THEN /\ resp' = Reply("update_user_status", 422, "validation error")
         /\ UNCHANGED db
    ELSE IF k = 0
    THEN /\ resp' = Reply("update_user_status", 404, "Not found")
         /\ UNCHANGED db
    ELSE /\ users' = [users EXCEPT ![k].status = status]
         /\ resp' = Reply("update_user_status", 200, "user")
         /\ UNCHANGED <<pending_users, txlogs>>

\* GET /users and GET /users/{user_id}. The route /users/{user_id} is
\* declared before /users/pending, so GET /users/pending is served by
\* get_user with user_id "pending".
list_users(cred) ==
    IF ~require_auth(cred) THEN Unauthorized("list_users", cred)
    ELSE /\ resp' = Reply("list_users", 200, "users")
         /\ UNCHANGED db

get_user(cred, user_id) ==
    IF ~require_auth(cred) THEN Unauthorized("get_user", cred)
    ELSE IF FirstIndex(users, user_id) = 0
    THEN /\ resp' = Reply("get_user", 404, "Not found")
         /\ UNCHANGED db
    ELSE /\ resp' = Reply("get_user", 200, "user")
         /\ UNCHANGED db

(***************************************************************************)
(* Pending requests: public form and admin moderation.                     *)
(***************************************************************************)
\* mutant of public_submit: only the user_id is compared with the Users
public_submit_IdOnly(u) ==
    LET k == FirstIndex(pending_users, u.user_id) IN
    IF \E j \in 1..Len(users) : users[j].user_id = u.user_id
    THEN /\ resp' = Reply("public_submit", 409, "User already exists")
         /\ UNCHANGED db
    ELSE /\ pending_users' =
               IF k # 0
               THEN [pending_users EXCEPT ![k].nick = u.nick,
                                          ![k].email = u.email,
                                          ![k].wallet = u.wallet,
                                          ![k].network = u.network]
               ELSE Append(pending_users, PendingUser(u))
         /\ resp' = Reply("public_submit", 201, "ok")
         /\ UNCHANGED <<users, txlogs>>

\* mutant of public_submit: a re-submission overwrites nick, wallet and
\* network of the pending row but keeps the email of the first submission
public_submit_KeepEmail(u) ==
    LET k == FirstIndex(pending_users, u.user_id) IN
    IF ExistsUser(u.user_id, u.email)
    THEN /\ resp' = Reply("public_submit", 409, "User already exists")
         /\ UNCHANGED db
    ELSE /\ pending_users' =
               IF k # 0
               THEN [pending_users EXCEPT ![k].nick = u.nick,
                                          ![k].wallet = u.wallet,
                                          ![k].network = u.network]
               ELSE Append(pending_users, PendingUser(u))
         /\ resp' = Reply("public_submit", 201, "ok")
         /\ UNCHANGED <<users, txlogs>>

\* mutant of public_submit: only approved Users block a submission
public_submit_ApprovedOnly(u) ==
    LET k == FirstIndex(pending_users, u.user_id) IN
    IF \E j \in 1..Len(users) :
          /\ users[j].status = "approved"
          /\ users[j].user_id = u.user_id \/ users[j].email = u.email
    THEN /\ resp' = Reply("public_submit", 409, "User already exists")
         /\ UNCHANGED db
    ELSE /\ pending_users' =
               IF k # 0
               THEN [pending_users EXCEPT ![k].nick = u.nick,
                                          ![k].email = u.email,
                                          ![k].wallet = u.wallet,
                                          ![k].network = u.network]
               ELSE Append(pending_users, PendingUser(u))
         /\ resp' = Reply("public_submit", 201, "ok")
         /\ UNCHANGED <<users, txlogs>>

public_submit(u) ==
    LET k == FirstIndex(pending_users, u.user_id) IN
    IF ExistsUser(u.user_id, u.email)
    THEN /\ resp' = Reply("public_submit", 409, "User already exists")
         /\ UNCHANGED db
    ELSE /\ pending_users' =
               IF k # 0
               THEN [pending_users EXCEPT ![k].nick = u.nick,
                                          ![k].email = u.email,
                                          ![k].wallet = u.wallet,
                                          ![k].network = u.network]
               ELSE Append(pending_users, PendingUser(u))
         /\ resp' = Reply("public_submit", 201, "ok")
         /\ UNCHANGED <<users, txlogs>>

\* mutant of approve_pending: an approval that meets an existing User is
\* refused with 409 and keeps the pending row
approve_pending_Strict(cred, user_id) ==
    LET k == FirstIndex(pending_users, user_id) IN
    IF ~require_auth(cred) THEN Unauthorized("approve_pending", cred)
    ELSE IF k = 0
    THEN /\ resp' = Reply("approve_pending", 404, "Not found")
         /\ UNCHANGED db
    ELSE LET p == pending_users[k] IN
         IF ExistsUser(p.user_id, p.email)
         THEN /\ resp' = Reply("approve_pending", 409, "User already exists")
              /\ UNCHANGED db
         ELSE /\ users' = Append(users, User(p))
              /\ pending_users' = Remove(pending_users, k)
              /\ resp' = Reply("approve_pending", 200, "user")
              /\ UNCHANGED txlogs

approve_pending(cred, user_id) ==
    LET k == FirstIndex(pending_users, user_id) IN
    IF ~require_auth(cred) THEN Unauthorized("approve_pending", cred)
    ELSE IF k = 0
    THEN /\ resp' = Reply("approve_pending", 404, "Not found")
         /\ UNCHANGED db
    ELSE LET p == pending_users[k] IN
         IF ExistsUser(p.user_id, p.email)
         THEN /\ pending_users' = Remove(pending_users, k)
              /\ resp' = Reply("approve_pending", 200, "already_present")
              /\ UNCHANGED <<users, txlogs>>
         ELSE IF ~UserIdFree(p.user_id)
         THEN /\ resp' = Reply("approve_pending", 500, "IntegrityError")
              /\ UNCHANGED db
         ELSE /\ users' = Append(users, User(p))
              /\ pending_users' = Remove(pending_users, k)
              /\ resp' = Reply("approve_pending", 200, "user")
              /\ UNCHANGED txlogs

\* mutant of deny_pending: the query has lost its filter and takes the first
\* pending row, whatever its user_id
deny_pending_First(cred, user_id) ==
    IF ~require_auth(cred) THEN Unauthorized("deny_pending", cred)
    ELSE IF pending_users = <<>>
    THEN /\ resp' = Reply("deny_pending", 404, "Not found")
         /\ UNCHANGED db
    ELSE /\ pending_users' = Remove(pending_users, 1)
         /\ resp' = Reply("deny_pending", 200, "ok")
         /\ UNCHANGED <<users, txlogs>>

deny_pending(cred, user_id) ==
    LET k == FirstIndex(pending_users, user_id) IN
    IF ~require_auth(cred) THEN Unauthorized("deny_pending", cred)
    ELSE IF k = 0
    THEN /\ resp' = Reply("deny_pending", 404, "Not found")
         /\ UNCHANGED db
    ELSE /\ pending_users' = Remove(pending_users, k)
         /\ resp' = Reply("deny_pending", 200, "ok")
         /\ UNCHANGED <<users, txlogs>>

(***************************************************************************)
(* Tx logs and pay.                                                        *)
(***************************************************************************)
\* models.TxLog
TxLog(user_id, amount, status, tx_hash, network, meta) ==
    [user_id |-> user_id, amount |-> amount, status |-> status,
     tx_hash |-> tx_hash, network |-> network, meta |-> meta]

\* mutant of BumpTotalPaid: the amount overwrites the running total
BumpTotalPaid_Overwrite(k, amount) ==
    [users EXCEPT ![k].total_paid = amount]

\* u.total_paid = float(u.total_paid or 0) + float(amount) on the k-th row
BumpTotalPaid(k, amount) ==
    [users EXCEPT ![k].total_paid = users[k].total_paid + amount]

\* mutant of create_tx: the balance is bumped whatever the status
create_tx_AnyStatus(cred, t) ==
    LET k == FirstIndex(users, t.user_id) IN
    IF ~require_auth(cred) THEN Unauthorized("create_tx", cred)
    ELSE /\ Len(txlogs) < MaxTx
         /\ txlogs' = Append(txlogs, TxLog(t.user_id, t.amount, t.status,
                                           t.tx_hash, t.network, t.meta))
         /\ users' = IF k # 0 THEN BumpTotalPaid(k, t.amount) ELSE users
         /\ resp' = Reply("create_tx", 200, "log")
         /\ UNCHANGED pending_users

\* mutant of create_tx: a record for an unknown user_id is refused, as pay does
create_tx_KnownOnly(cred, t) ==
    LET k == FirstIndex(users, t.user_id) IN
    IF ~require_auth(cred) THEN Unauthorized("create_tx", cred)
    ELSE IF k = 0
    THEN /\ resp' = Reply("create_tx", 404, "User not found")
         /\ UNCHANGED db
    ELSE /\ Len(txlogs) < MaxTx
         /\ txlogs' = Append(txlogs, TxLog(t.user_id, t.amount, t.status,
                                           t.tx_hash, t.network, t.meta))
         /\ users' = IF Lower(OrDefault(t.status, "")) = "success"
                     THEN BumpTotalPaid(k, t.amount)
                     ELSE users
         /\ resp' = Reply("create_tx", 200, "log")
         /\ UNCHANGED pending_users

create_tx(cred, t) ==
    LET k == FirstIndex(users, t.user_id) IN
    IF ~require_auth(cred) THEN Unauthorized("create_tx", cred)
    ELSE /\ Len(txlogs) < MaxTx
         /\ txlogs' = Append(txlogs, TxLog(t.user_id, t.amount, t.status,
                                           t.tx_hash, t.network, t.meta))
         /\ users' = IF Lower(OrDefault(t.status, "")) = "success" /\ k # 0
                     THEN BumpTotalPaid(k, t.amount)
                     ELSE users
         /\ resp' = Reply("create_tx", 200, "log")
         /\ UNCHANGED pending_users

\* GET /tx/user/{user_id}: the Transactions of a user_id, none for an unknown one
tx_by_user(cred, user_id) ==
    IF ~require_auth(cred) THEN Unauthorized("tx_by_user", cred)
    ELSE /\ resp' = Reply("tx_by_user", 200, "txs")
         /\ UNCHANGED db

\* mutant of pay: an unknown user_id is tolerated, as create_tx does
pay_UnknownTolerated(cred, p) ==
    LET k == FirstIndex(users, p.user_id) IN
    IF ~require_auth(cred) THEN Unauthorized("pay", cred)
    ELSE IF p.amount <= 0
    THEN /\ resp' = Reply("pay", 400, "Amount must be > 0")
         /\ UNCHANGED db
    ELSE \E gen \in GenHashes :
         LET tx_hash == OrDefault(p.tx_hash, gen)
             status_str == Lower(OrDefault(p.status, "success"))
         IN /\ Len(txlogs) < MaxTx
            /\ txlogs' = Append(txlogs, TxLog(p.user_id, p.amount, status_str,
                                              tx_hash, p.network, "None"))
            /\ users' = IF status_str = "success" /\ k # 0
                        THEN BumpTotalPaid(k, p.amount)
                        ELSE users
            /\ resp' = Reply("pay", 200, "ok")
            /\ UNCHANGED pending_users

pay(cred, p) ==
    LET k == FirstIndex(users, p.user_id) IN
    IF ~require_auth(cred) THEN Unauthorized("pay", cred)
    ELSE IF k = 0
    THEN /\ resp' = Reply("pay", 404, "User not found")
         /\ UNCHANGED db
    ELSE IF p.amount <= 0
    THEN /\ resp' = Reply("pay", 400, "Amount must be > 0")
         /\ UNCHANGED db
    ELSE \E gen \in GenHashes :
         LET tx_hash == OrDefault(p.tx_hash, gen)
             status_str == Lower(OrDefault(p.status, "success"))
         IN /\ Len(txlogs) < MaxTx
            /\ txlogs' = Append(txlogs, TxLog(p.user_id, p.amount, status_str,
                                              tx_hash, p.network, "None"))
            /\ users' = IF status_str = "success"
                        THEN BumpTotalPaid(k, p.amount)
                        ELSE users
            /\ resp' = Reply("pay", 200, "ok")
            /\ UNCHANGED pending_users

(***************************************************************************)
(* Overlapping requests. A handler runs in a threadpool worker and talks   *)
(* to the database in round trips: each query is one, db.commit() is one   *)
(* (it flushes the INSERT / UPDATE / DELETE statements the session has     *)
(* queued, autoflush being off, in one database transaction), and the      *)
(* reload of a row after the commit (db.refresh, or the first read of an   *)
(* attribute the commit has expired) is one. Between the round trips of a  *)
(* handler other handlers may run theirs. A query sees what is committed   *)
(* at that moment (READ COMMITTED; SQLite likewise takes its write lock    *)
(* only at the flush).                                                     *)
(*                                                                         *)
(* A session addresses the rows it loaded by primary key: k is the key of  *)
(* its row of users, pk the key of its row of pending_users, 0 when it     *)
(* holds none. pc is the round trip the handler makes next: "select" (its  *)
(* second query), "commit", "refresh". The flush sends an UPDATE only for  *)
(* the columns whose value differs from the one the session loaded; an     *)
(* UPDATE that matches no row raises StaleDataError and rolls the          *)
(* transaction back, a DELETE that matches no row only warns.              *)
(*                                                                         *)
(* keys holds the primary keys of the rows of users and pending_users, in  *)
(* table order, and the database that issues them, the one DATABASE_URL    *)
(* names (db.py). On SQLite (DATABASE_URL unset) an INTEGER PRIMARY KEY is *)
(* the rowid and a new row gets the largest key of the table plus one (1   *)
(* in an empty table), so that the key of a deleted row can be issued      *)
(* again. On PostgreSQL the key comes from a sequence and is never issued  *)
(* twice. Keys are only ever compared with each other, so the model        *)
(* numbers them as SQLite does on both databases, and on PostgreSQL a      *)
(* session that holds the key of a row holds -1, the key of no row, from   *)
(* the moment the row is deleted: no later row is taken for it.            *)
(***************************************************************************)
\* the sessions that will INSERT a TxLog row at their commit
InFlightLogs ==
    Cardinality({w \in Workers : /\ sessions[w] # Idle
                                 /\ sessions[w].op \in {"create_tx", "pay"}
                                 /\ sessions[w].pc = "commit"})

\* the row of table t that carries the primary key key, 0 when there is none
Locate(t, key) ==
    IF \E i \in 1..Len(keys.ids[t]) : keys.ids[t][i] = key
    THEN CHOOSE i \in 1..Len(keys.ids[t]) : keys.ids[t][i] = key
    ELSE 0

\* the primary key the database gives the next row of table t
NewKey(t) ==
    IF keys.ids[t] = <<>> THEN 1 ELSE keys.ids[t][Len(keys.ids[t])] + 1

\* the sessions after the i-th row of table t was deleted (i = 0: no row
\* matched): on PostgreSQL the key of that row is the key of no row from now on
Forget(ss, t, i) ==
    IF i = 0 \/ keys.engine = "sqlite" THEN ss
    ELSE [w \in Workers |->
            IF ss[w] = Idle THEN Idle
            ELSE IF t = "users"
            THEN [ss[w] EXCEPT !.k = IF @ = keys.ids[t][i] THEN -1 ELSE @]
            ELSE [ss[w] EXCEPT !.pk = IF @ = keys.ids[t][i] THEN -1 ELSE @]]

\* keys after a row was inserted into table t
Stored(ks, t) ==
    [ks EXCEPT !.ids[t] = Append(@, NewKey(t))]

\* keys after the i-th row of table t was deleted (i = 0: no row matched)
Deleted(ks, t, i) ==
    [ks EXCEPT !.ids[t] = IF i > 0 THEN Remove(@, i) ELSE @]

\* the handler returns before db.commit(): the reply goes out, nothing is
\* written and the slot stays free
Refuse(op, code, detail) ==
    /\ resp' = Reply(op, code, detail)
    /\ UNCHANGED <<db, sessions, keys>>

\* the handler waits for its next round trip with this work in its session
Hold(w, work) ==
    /\ sessions' = [sessions EXCEPT ![w] = work]
    /\ UNCHANGED <<db, resp, keys>>

\* the flush of the columns of a loaded row that the handler changed: the
\* columns where new differs from old (the values loaded) are written over
\* cur (the row as it is in the table), the others are left as they are
Flush(cur, old, new) ==
    [f \in DOMAIN cur |-> IF new[f] # old[f] THEN new[f] ELSE cur[f]]

\* create_user up to its db.commit(): the duplicate query (main.py 145)
begin_create_user(w, u) ==
    /\ sessions[w] = Idle
    /\ IF ExistsUser(u.user_id, u.email)
       THEN Refuse("create_user", 400, "User ID or email already exists")
       ELSE Hold(w, [op |-> "create_user", pc |-> "commit", k |-> 0, pk |-> 0,
                     add |-> User(u)])

\* delete_user up to its db.commit(): the query by user_id (188)
begin_delete_user(w, user_id) ==
    LET i == FirstIndex(users, user_id) IN
    /\ sessions[w] = Idle
    /\ IF i = 0 THEN Refuse("delete_user", 404, "Not found")
       ELSE Hold(w, [op |-> "delete_user", pc |-> "commit",
                     k |-> keys.ids.users[i], pk |-> 0])

\* update_user_status up to its db.commit(): the query by user_id (203) and
\* user.status = body.status in the session (207)
begin_update_user_status(w, user_id, status) ==
    LET i == FirstIndex(users, user_id) IN
    /\ sessions[w] = Idle
    /\ IF status \notin UserStatus
       THEN Refuse("update_user_status", 422, "validation error")
       ELSE IF i = 0 THEN Refuse("update_user_status", 404, "Not found")
       ELSE Hold(w, [op |-> "update_user_status", pc |-> "commit",
                     k |-> keys.ids.users[i], pk |-> 0,
                     read |-> users[i].status, status |-> status])

\* public_submit up to its second query: the duplicate query (224)
begin_public_submit(w, u) ==
    /\ sessions[w] = Idle
    /\ IF ExistsUser(u.user_id, u.email)
       THEN Refuse("public_submit", 409, "User already exists")
       ELSE Hold(w, [op |-> "public_submit", pc |-> "select", k |-> 0,
                     pk |-> 0, row |-> PendingUser(u), old |-> PendingUser(u)])

\* approve_pending up to its second query: the query of the pending row (267)
begin_approve_pending(w, user_id) ==
    LET i == FirstIndex(pending_users, user_id) IN
    /\ sessions[w] = Idle
    /\ IF i = 0
       THEN Refuse("approve_pending", 404, "Not found")
       ELSE Hold(w, [op |-> "approve_pending", pc |-> "select", k |-> 0,
                     pk |-> keys.ids.pending_users[i],
                     add |-> User(pending_users[i]), exists |-> FALSE])

\* deny_pending up to its db.commit(): the query of the pending row (305)
begin_deny_pending(w, user_id) ==
    LET i == FirstIndex(pending_users, user_id) IN
    /\ sessions[w] = Idle
    /\ IF i = 0 THEN Refuse("deny_pending", 404, "Not found")
       ELSE Hold(w, [op |-> "deny_pending", pc |-> "commit", k |-> 0,
                     pk |-> keys.ids.pending_users[i]])

\* create_tx up to its db.commit(): the query of the User (324), made for a
\* success record only; read is the total_paid it loaded, total the one it set
begin_create_tx(w, t) ==
    LET i == IF Lower(OrDefault(t.status, "")) = "success"
             THEN FirstIndex(users, t.user_id) ELSE 0
    IN /\ sessions[w] = Idle
       /\ Len(txlogs) + InFlightLogs < MaxTx
       /\ Hold(w, [op |-> "create_tx", pc |-> "commit",
                   k |-> IF i # 0 THEN keys.ids.users[i] ELSE 0, pk |-> 0,
                   log |-> TxLog(t.user_id, t.amount, t.status, t.tx_hash,
                                 t.network, t.meta),
                   bump |-> i # 0,
                   read |-> IF i # 0 THEN users[i].total_paid ELSE 0,
                   total |-> IF i # 0 THEN BumpTotalPaid(i, t.amount)[i].total_paid
                                      ELSE 0])

\* pay up to its db.commit(): the query of the User (344)
begin_pay(w, p) ==
    LET i == FirstIndex(users, p.user_id) IN
    /\ sessions[w] = Idle
    /\ IF i = 0 THEN Refuse("pay", 404, "User not found")
       ELSE IF p.amount <= 0 THEN Refuse("pay", 400, "Amount must be > 0")
       ELSE \E gen \in GenHashes :
            LET tx_hash == OrDefault(p.tx_hash, gen)
                status_str == Lower(OrDefault(p.status, "success"))
                bump == status_str = "success"
            IN /\ Len(txlogs) + InFlightLogs < MaxTx
               /\ Hold(w, [op |-> "pay", pc |-> "commit",
                           k |-> keys.ids.users[i], pk |-> 0,
                           log |-> TxLog(p.user_id, p.amount, status_str,
                                         tx_hash, p.network, "None"),
                           bump |-> bump,
                           read |-> users[i].total_paid,
                           total |-> IF bump
                                     THEN BumpTotalPaid(i, p.amount)[i].total_paid
                                     ELSE users[i].total_paid])

\* the second query of public_submit: the pending row of the user_id (229)
select_pending(w) ==
    LET c == sessions[w]
        i == FirstIndex(pending_users, c.row.user_id)
    IN Hold(w, [c EXCEPT !.pc = "commit",
                         !.pk = IF i # 0 THEN keys.ids.pending_users[i] ELSE 0,
                         !.old = IF i # 0 THEN pending_users[i] ELSE c.row])

\* the second query of approve_pending: the duplicate query, on the user_id
\* and email of the pending row as it was loaded (272)
select_exists(w) ==
    LET c == sessions[w] IN
    Hold(w, [c EXCEPT !.pc = "commit",
                      !.exists = ExistsUser(c.add.user_id, c.add.email)])

select(w) ==
    /\ sessions[w] # Idle
    /\ sessions[w].pc = "select"
    /\ IF sessions[w].op = "public_submit" THEN select_pending(w)
                                           ELSE select_exists(w)

\* the request is over: the reply goes out and get_db closes the session
Done(w, op, code, detail) ==
    /\ resp' = Reply(op, code, detail)
    /\ sessions' = [sessions EXCEPT ![w] = Idle]

\* db.commit() has returned and the handler reloads a row: the User row of
\* key k, or the TxLog row it inserted
Reload(w, k) ==
    /\ sessions' = [sessions EXCEPT ![w].pc = "refresh", ![w].k = k]
    /\ UNCHANGED resp

\* INSERT INTO users: refused by the unique index on user_id (IntegrityError,
\* which no handler catches); there is no unique index on email
commit_create_user(w) ==
    LET c == sessions[w] IN
    IF ~UserIdFree(c.add.user_id)
    THEN /\ Done(w, "create_user", 500, "IntegrityError")
         /\ UNCHANGED <<db, keys>>
    ELSE /\ users' = Append(users, c.add)
         /\ keys' = Stored(keys, "users")
         /\ Reload(w, NewKey("users"))
         /\ UNCHANGED <<pending_users, txlogs>>

\* DELETE FROM users WHERE id = k; a DELETE that matches no row only warns
commit_delete_user(w) ==
    LET i == Locate("users", sessions[w].k) IN
    /\ users' = IF i > 0 THEN Remove(users, i) ELSE users
    /\ keys' = Deleted(keys, "users", i)
    /\ resp' = Reply("delete_user", 204, "")
    /\ sessions' = [Forget(sessions, "users", i) EXCEPT ![w] = Idle]
    /\ UNCHANGED <<pending_users, txlogs>>

\* UPDATE users SET status = ... WHERE id = k, sent when the status differs
\* from the one loaded (StaleDataError when no row has the key)
commit_update_user_status(w) ==
    LET c == sessions[w]
        i == Locate("users", c.k)
    IN IF c.status = c.read
       THEN /\ Reload(w, c.k)
            /\ UNCHANGED <<db, keys>>
       ELSE IF i = 0
       THEN /\ Done(w, "update_user_status", 500, "StaleDataError")
            /\ UNCHANGED <<db, keys>>
       ELSE /\ users' = [users EXCEPT ![i].status = c.status]
            /\ Reload(w, c.k)
            /\ UNCHANGED <<pending_users, txlogs, keys>>

\* INSERT INTO pending_users (unique index on user_id), or UPDATE
\* pending_users ... WHERE id = pk for the columns the payload changes
\* (StaleDataError when no row has the key; no statement when it changes
\* none)
commit_public_submit(w) ==
    LET c == sessions[w]
        i == Locate("pending_users", c.pk)
    IN IF c.pk = 0
       THEN IF FirstIndex(pending_users, c.row.user_id) # 0
            THEN /\ Done(w, "public_submit", 500, "IntegrityError")
                 /\ UNCHANGED <<db, keys>>
            ELSE /\ pending_users' = Append(pending_users, c.row)
                 /\ keys' = Stored(keys, "pending_users")
                 /\ Done(w, "public_submit", 201, "ok")
                 /\ UNCHANGED <<users, txlogs>>
       ELSE IF c.row = c.old
       THEN /\ Done(w, "public_submit", 201, "ok")
            /\ UNCHANGED <<db, keys>>
       ELSE IF i = 0
       THEN /\ Done(w, "public_submit", 500, "StaleDataError")
            /\ UNCHANGED <<db, keys>>
       ELSE /\ pending_users' =
                  [pending_users EXCEPT ![i] = Flush(@, c.old, c.row)]
            /\ Done(w, "public_submit", 201, "ok")
            /\ UNCHANGED <<users, txlogs, keys>>

\* DELETE FROM pending_users WHERE id = pk, after the INSERT INTO users when
\* the duplicate query had found no User. A DELETE that matches no row only
\* warns.
commit_approve_pending(w) ==
    LET c == sessions[w]
        i == Locate("pending_users", c.pk)
        gone == IF i > 0 THEN Remove(pending_users, i) ELSE pending_users
    IN IF c.exists
       THEN /\ pending_users' = gone
            /\ keys' = Deleted(keys, "pending_users", i)
            /\ resp' = Reply("approve_pending", 200, "already_present")
            /\ sessions' = [Forget(sessions, "pending_users", i)
                              EXCEPT ![w] = Idle]
            /\ UNCHANGED <<users, txlogs>>
       ELSE IF ~UserIdFree(c.add.user_id)
       THEN /\ Done(w, "approve_pending", 500, "IntegrityError")
            /\ UNCHANGED <<db, keys>>
       ELSE /\ users' = Append(users, c.add)
            /\ pending_users' = gone
            /\ keys' = Deleted(Stored(keys, "users"), "pending_users", i)
            /\ sessions' = [Forget(sessions, "pending_users", i)
                              EXCEPT ![w].pc = "refresh",
                                     ![w].k = NewKey("users")]
            /\ UNCHANGED <<txlogs, resp>>

\* DELETE FROM pending_users WHERE id = pk; a DELETE that matches no row only
\* warns
commit_deny_pending(w) ==
    LET i == Locate("pending_users", sessions[w].pk) IN
    /\ pending_users' = IF i > 0 THEN Remove(pending_users, i)
                                 ELSE pending_users
    /\ keys' = Deleted(keys, "pending_users", i)
    /\ resp' = Reply("deny_pending", 200, "ok")
    /\ sessions' = [Forget(sessions, "pending_users", i) EXCEPT ![w] = Idle]
    /\ UNCHANGED <<users, txlogs>>

\* mutant of commit_record: every statement is committed by itself, and the
\* request can fail after the INSERT and before the UPDATE
commit_record_Autocommit(w) ==
    LET c == sessions[w]
        i == Locate("users", c.k)
    IN \/ /\ c.total = c.read \/ i > 0
          /\ txlogs' = Append(txlogs, c.log)
          /\ users' = IF c.total # c.read
                      THEN [users EXCEPT ![i].total_paid = c.total]
                      ELSE users
          /\ Reload(w, c.k)
          /\ UNCHANGED <<pending_users, keys>>
       \/ /\ c.total # c.read
          /\ txlogs' = Append(txlogs, c.log)
          /\ Done(w, c.op, 500, "OperationalError")
          /\ UNCHANGED <<users, pending_users, keys>>

\* create_tx and pay: INSERT INTO txlogs and, when the handler changed the
\* total_paid of the loaded User, UPDATE users SET total_paid = <the value
\* computed from what was read> WHERE id = k, in one transaction
\* (StaleDataError when no row has the key: the INSERT is rolled back with
\* it)
commit_record(w) ==
    LET c == sessions[w]
        i == Locate("users", c.k)
    IN IF c.total = c.read
       THEN /\ txlogs' = Append(txlogs, c.log)
            /\ Reload(w, c.k)
            /\ UNCHANGED <<users, pending_users, keys>>
       ELSE IF i = 0
       THEN /\ Done(w, c.op, 500, "StaleDataError")
            /\ UNCHANGED <<db, keys>>
       ELSE /\ txlogs' = Append(txlogs, c.log)
            /\ users' = [users EXCEPT ![i].total_paid = c.total]
            /\ Reload(w, c.k)
            /\ UNCHANGED <<pending_users, keys>>

\* db.commit()
commit(w) ==
    /\ sessions[w] # Idle
    /\ sessions[w].pc = "commit"
    /\ CASE sessions[w].op = "create_user" -> commit_create_user(w)
         [] sessions[w].op = "delete_user" -> commit_delete_user(w)
         [] sessions[w].op = "update_user_status" -> commit_update_user_status(w)
         [] sessions[w].op = "public_submit" -> commit_public_submit(w)
         [] sessions[w].op = "approve_pending" -> commit_approve_pending(w)
         [] sessions[w].op = "deny_pending" -> commit_deny_pending(w)
         [] sessions[w].op \in {"create_tx", "pay"} -> commit_record(w)

\* the reload after the commit. db.refresh(log) of create_tx (329) and pay
\* (367) finds the TxLog row, which no handler deletes. db.refresh(user) of
\* create_user (160), update_user_status (209) and approve_pending (288)
\* raises InvalidRequestError when no row has the key, the read of
\* u.total_paid for the reply of pay (368) ObjectDeletedError.
refresh(w) ==
    LET c == sessions[w] IN
    /\ c # Idle
    /\ c.pc = "refresh"
    /\ UNCHANGED <<db, keys>>
    /\ IF c.op = "create_tx" THEN Done(w, "create_tx", 200, "log")
       ELSE IF Locate("users", c.k) = 0
       THEN Done(w, c.op, 500, IF c.op = "pay" THEN "ObjectDeletedError"
                                               ELSE "InvalidRequestError")
       ELSE Done(w, c.op, 200, IF c.op = "pay" THEN "ok" ELSE "user")

\* the request dies between two of its round trips (the worker is killed,
\* the connection drops): the session is closed as it is, and what it had
\* not committed is not written
abort(w) ==
    /\ sessions[w] # Idle
    /\ Done(w, sessions[w].op, 500, "aborted")
    /\ UNCHANGED <<db, keys>>

\* Overlapping traffic: one user id under one payload for the registry, the
\* same user id under two payloads for the public form, the moderation, the
\* delete and one new status for that user id, success record calls for it
ConcUserCreate == UserCreateOf({"u1"}, {Ann})
ConcPublic == UserCreateOf({"u1"}, {Ann, Bob})
ConcIds == {"u1"}
ConcStatus == {"denied"}
ConcTxCreate == TxCreateOf({"u1"}, {1}, {"success"})
ConcPayIn == PayInOf({"u1"}, {1}, {"0xaa"}, {""})

NextConc ==
    \E w \in Workers :
       \/ \E u \in ConcUserCreate : begin_create_user(w, u)
       \/ \E i \in ConcIds : begin_delete_user(w, i)
       \/ \E i \in ConcIds, s \in ConcStatus : begin_update_user_status(w, i, s)
       \/ \E u \in ConcPublic : begin_public_submit(w, u)
       \/ \E i \in ConcIds : begin_approve_pending(w, i)
       \/ \E i \in ConcIds : begin_deny_pending(w, i)
       \/ \E t \in ConcTxCreate : begin_create_tx(w, t)
       \/ \E p \in ConcPayIn : begin_pay(w, p)
       \/ select(w)
       \/ commit(w)
       \/ refresh(w)
       \/ abort(w)

\* the database is SQLite or PostgreSQL, as DATABASE_URL says
InitConc == \E e \in Engines : Start(e)

SpecConc == InitConc /\ [][NextConc]_vars

\* the requests clients send one at a time, each running from its first
\* query to its db.commit() before the next one starts; their inputs are
\* drawn from the given sets
Requests(creds, creates, submits, statuses, txs, pays) ==
    \/ \E cred \in creds, u \in creates :
          create_user(cred, u) /\ UNCHANGED <<sessions, keys>>
    \/ \E cred \in creds, i \in UserIds :
          delete_user(cred, i) /\ UNCHANGED <<sessions, keys>>
    \/ \E cred \in creds, i \in UserIds, s \in statuses :
          update_user_status(cred, i, s) /\ UNCHANGED <<sessions, keys>>
    \/ \E u \in submits :
          public_submit(u) /\ UNCHANGED <<sessions, keys>>
    \/ \E cred \in creds, i \in UserIds :
          approve_pending(cred, i) /\ UNCHANGED <<sessions, keys>>
    \/ \E cred \in creds, i \in UserIds :
          deny_pending(cred, i) /\ UNCHANGED <<sessions, keys>>
    \/ \E cred \in creds, t \in txs :
          create_tx(cred, t) /\ UNCHANGED <<sessions, keys>>
    \/ \E cred \in creds, p \in pays :
          pay(cred, p) /\ UNCHANGED <<sessions, keys>>

Next == Requests({"valid"}, UserCreate, UserCreate, StatusInputs,
                 TxCreate, PayIn)

Spec == Init /\ [][Next]_vars

\* the requests that only read
Reads(creds) ==
    \/ \E cred \in creds :
          list_users(cred) /\ UNCHANGED <<sessions, keys>>
    \/ \E cred \in creds, i \in UserIds \cup {"pending"} :
          get_user(cred, i) /\ UNCHANGED <<sessions, keys>>
    \/ \E cred \in creds, i \in UserIds :
          tx_by_user(cred, i) /\ UNCHANGED <<sessions, keys>>

NextLedger == Requests({"valid"}, LedgerUserCreate, LedgerPublic, UserStatus,
                       LedgerTxCreate, LedgerPayIn)

SpecLedger == Init /\ [][NextLedger]_vars

\* one kind of record call, for the traffic that is about the other routes
AuthTxCreate == TxCreateOf({"u1"}, {1}, {"success"})
AuthPayIn == PayInOf({"u1"}, {1}, {"0xaa"}, {""})

\* The JSON body of POST /users as a client may send it: the five fields of
\* schemas.UserCreate and possibly a "status" key ("absent": no such key)
StatusFields == {"absent", "pending", "approved", "denied", "banned"}
UserCreateBodies ==
    { [user_id |-> u.user_id, nick |-> u.nick, email |-> u.email,
       wallet |-> u.wallet, network |-> u.network, status |-> st] :
      u \in LedgerUserCreate, st \in StatusFields }

\* UserCreate(**body): the model declares no status field and pydantic
\* ignores the keys a model does not declare
ParseUserCreate(body) ==
    [user_id |-> body.user_id, nick |-> body.nick, email |-> body.email,
     wallet |-> body.wallet, network |-> body.network]

\* POST /users with a JSON body
post_users(cred, body) == create_user(cred, ParseUserCreate(body))

\* Traffic with every kind of create-user body: one identity per user id,
\* one kind of record call
NextCreate ==
    \/ \E body \in UserCreateBodies :
          post_users("valid", body) /\ UNCHANGED <<sessions, keys>>
    \/ Requests({"valid"}, LedgerUserCreate, LedgerPublic, StatusInputs,
                AuthTxCreate, AuthPayIn)

SpecCreate == Init /\ [][NextCreate]_vars

\* Traffic of callers with and without a valid session: every route, one
\* identity per user id, one kind of record call
NextAuth ==
    \/ Requests(Credentials, LedgerUserCreate, LedgerUserCreate, UserStatus,
                AuthTxCreate, AuthPayIn)
    \/ Reads(Credentials)

SpecAuth == Init /\ [][NextAuth]_vars

(***************************************************************************)
(* The failure taxonomy of the specification, read off the HTTP replies.   *)
(***************************************************************************)
IsConflict(r) ==
    \/ r.code = 400 /\ r.detail = "User ID or email already exists"
    \/ r.code = 409
IsNotFound(r) == r.code = 404
IsInvalidArgument(r) ==
    \/ r.code = 400 /\ r.detail = "Amount must be > 0"
    \/ r.code = 422
IsFailure(r) == r.code >= 400
IsSuccess(r) == r.code \in {200, 201, 204}

\* some User row carries this user_id or this email
Taken(uid, email) ==
    \E k \in 1..Len(users) : users[k].user_id = uid \/ users[k].email = email

\* some User row carries this user_id
Known(uid) == \E k \in 1..Len(users) : users[k].user_id = uid

(***************************************************************************)
(* Registry claims, checked under Spec.                                    *)
(***************************************************************************)
\* C1: in every reachable state no two User rows share a user_id and no two
\* User rows share an email.
C1_UniqueIdentity ==
    \A j, k \in 1..Len(users) :
        j # k => /\ users[j].user_id # users[k].user_id
                 /\ users[j].email # users[k].email

\* C1 witness: two Users exist, the second one materialized by an approval.
C1_Witness ==
    /\ Len(users) = 2
    /\ resp = Reply("approve_pending", 200, "user")

\* C2: an admin create-user request whose user_id or email is carried by an
\* existing User is answered with Conflict and leaves the users table as it was.
C2_DuplicateCreateRejected ==
    [][resp'.op = "create_user" => \A u \in UserCreate :
          (/\ Taken(u.user_id, u.email)
           /\ create_user("valid", u))
             => (IsConflict(resp') /\ users' = users)]_vars

\* C2 witness: a create-user request was refused as a duplicate while a User
\* exists.
C2_Witness ==
    /\ resp = Reply("create_user", 400, "User ID or email already exists")
    /\ Len(users) >= 1

\* the PendingRequest rows of a user_id
PendingOf(table, uid) == SelectSeq(table, LAMBDA r : r.user_id = uid)

\* C9: approving an existing PendingRequest whose user_id and email no User
\* carries leaves a User with that user_id whose nick, email, wallet and
\* network are the PendingRequest's, whose status is approved and whose
\* total_paid is 0, and leaves no PendingRequest with that user_id.
C9_ApproveMaterializes ==
    [][resp'.op = "approve_pending" => \A i \in UserIds :
          (/\ PendingOf(pending_users, i) # <<>>
           /\ ~Taken(i, PendingOf(pending_users, i)[1].email)
           /\ approve_pending("valid", i))
             => LET p == PendingOf(pending_users, i)[1] IN
                /\ \E k \in 1..Len(users') :
                      users'[k] = [user_id |-> i, nick |-> p.nick,
                                   email |-> p.email, wallet |-> p.wallet,
                                   network |-> p.network, total_paid |-> 0,
                                   status |-> "approved"]
                /\ Len(users') = Len(users) + 1
                /\ PendingOf(pending_users', i) = <<>>
                /\ IsSuccess(resp')]_vars

\* C9 witness: an approval has just materialized a User while another
\* PendingRequest is still waiting.
C9_Witness ==
    /\ resp = Reply("approve_pending", 200, "user")
    /\ Len(users) >= 1
    /\ Len(pending_users) = 1
    /\ users[Len(users)].status = "approved"
    /\ users[Len(users)].total_paid = 0

\* C10: approving an existing PendingRequest while a User carries its user_id
\* or its email does not fail: it reports "already present", removes that
\* PendingRequest, and leaves the users table exactly as it was.
C10_ApproveAlreadyPresent ==
    [][resp'.op = "approve_pending" => \A i \in UserIds :
          (/\ PendingOf(pending_users, i) # <<>>
           /\ Taken(i, PendingOf(pending_users, i)[1].email)
           /\ approve_pending("valid", i))
             => /\ resp' = Reply("approve_pending", 200, "already_present")
                /\ PendingOf(pending_users', i) = <<>>
                /\ Len(pending_users') = Len(pending_users) - 1
                /\ \A j \in UserIds \ {i} :
                      PendingOf(pending_users', j) = PendingOf(pending_users, j)
                /\ users' = users]_vars

\* C10 witness: an approval reported "already present" for a User that has
\* been paid and is no longer approved.
C10_Witness ==
    /\ resp = Reply("approve_pending", 200, "already_present")
    /\ \E k \in 1..Len(users) :
          users[k].total_paid > 0 /\ users[k].status # "approved"

(***************************************************************************)
(* Ledger claims. Each is stated over the record calls of both kinds of    *)
(* traffic.                                                                *)
(***************************************************************************)
AllTxCreate == TxCreate \cup LedgerTxCreate
AllPayIn == PayIn \cup LedgerPayIn

\* the spellings of a status that normalize to "success" in the log variant
\* ((t.status or "").lower()) and in the pay variant ((p.status or
\* "success").lower(), an omitted or empty status counting as success)
LogSuccess(s) == s \in {"success", "SUCCESS"}
PaySuccess(s) == s \in {"", "success", "SUCCESS"}

\* row number of the User carrying uid (the user_id is unique, claim C1)
RowOf(uid) == CHOOSE k \in 1..Len(users) : users[k].user_id = uid

\* exactly one Transaction was appended by the step, for user_id uid
AppendedOne(uid, amount) ==
    /\ Len(txlogs') = Len(txlogs) + 1
    /\ SubSeq(txlogs', 1, Len(txlogs)) = txlogs
    /\ txlogs'[Len(txlogs')].user_id = uid
    /\ txlogs'[Len(txlogs')].amount = amount

\* the step added amount to the total_paid of uid and changed nothing else
\* in the users table
PaidExactly(uid, amount) ==
    /\ Len(users') = Len(users)
    /\ users'[RowOf(uid)] =
          [users[RowOf(uid)] EXCEPT !.total_paid = @ + amount]
    /\ \A k \in 1..Len(users) : k # RowOf(uid) => users'[k] = users[k]

\* C3: a record call (log or pay) that succeeds with normalized status
\* "success" against an existing User adds amount to that User's total_paid,
\* appends exactly one Transaction and changes no other User.
C3_SuccessAccumulates ==
    [][/\ (resp'.op = "create_tx" => \A t \in AllTxCreate :
             (/\ IsSuccess(resp')
              /\ LogSuccess(t.status) /\ Known(t.user_id)
              /\ create_tx("valid", t))
                => (PaidExactly(t.user_id, t.amount)
                    /\ AppendedOne(t.user_id, t.amount)))
       /\ (resp'.op = "pay" => \A p \in AllPayIn :
             (/\ IsSuccess(resp')
              /\ PaySuccess(p.status) /\ Known(p.user_id)
              /\ pay("valid", p))
                => (PaidExactly(p.user_id, p.amount)
                    /\ AppendedOne(p.user_id, p.amount)))]_vars

\* C3 witness: two successful payments have accumulated on one User while
\* another User exists.
C3_Witness ==
    /\ resp = Reply("pay", 200, "ok")
    /\ Len(txlogs) = 2
    /\ Len(users) = 2
    /\ \E k \in 1..Len(users) : users[k].total_paid = 2

\* C4: a record call (log or pay) that is accepted with a normalized status
\* other than "success" appends one Transaction and leaves every User's
\* total_paid (the whole users table) unchanged.
C4_NonSuccessKeepsTotals ==
    [][/\ (resp'.op = "create_tx" => \A t \in AllTxCreate :
             (/\ ~LogSuccess(t.status)
              /\ create_tx("valid", t))
                => (/\ IsSuccess(resp')
                    /\ AppendedOne(t.user_id, t.amount)
                    /\ users' = users))
       /\ (resp'.op = "pay" => \A p \in AllPayIn :
             (/\ ~PaySuccess(p.status)
              /\ Known(p.user_id) /\ p.amount > 0
              /\ pay("valid", p))
                => (/\ IsSuccess(resp')
                    /\ AppendedOne(p.user_id, p.amount)
                    /\ users' = users))]_vars

\* C4 witness: after a successful payment a second record with status
\* "failed" was written and the total is still the first amount.
C4_Witness ==
    /\ Len(txlogs) = 2
    /\ txlogs[1].status = "success" /\ txlogs[1].amount = 1
    /\ txlogs[2].status = "failed" /\ txlogs[2].user_id = txlogs[1].user_id
    /\ \E k \in 1..Len(users) :
          users[k].user_id = txlogs[1].user_id /\ users[k].total_paid = 1

\* C5 as claimed: a record call with amount <= 0, log or pay, fails with
\* InvalidArgument, persists no Transaction and changes no total_paid.
C5_NonPositiveAmountRejected ==
    [][/\ (resp'.op = "create_tx" => \A t \in LedgerTxCreate :
             (/\ t.amount <= 0 /\ create_tx("valid", t))
                => (IsInvalidArgument(resp') /\ txlogs' = txlogs
                    /\ users' = users))
       /\ (resp'.op = "pay" => \A p \in LedgerPayIn :
             (/\ p.amount <= 0 /\ Known(p.user_id)
              /\ pay("valid", p))
                => (IsInvalidArgument(resp') /\ txlogs' = txlogs
                    /\ users' = users))]_vars

\* C6 as claimed: a pay call for an existing User whose status is not
\* approved fails, appends no Transaction and leaves total_paid unchanged.
C6_PayRequiresApproved ==
    [][resp'.op = "pay" => \A p \in LedgerPayIn :
          (/\ Known(p.user_id)
           /\ users[RowOf(p.user_id)].status # "approved"
           /\ pay("valid", p))
             => (IsFailure(resp') /\ txlogs' = txlogs /\ users' = users)]_vars

\* C7: a pay call whose user_id no User carries fails with NotFound and
\* leaves the ledger, the Users and the PendingRequests unchanged.
C7_PayUnknownUser ==
    [][resp'.op = "pay" => \A p \in AllPayIn :
          (/\ ~Known(p.user_id) /\ pay("valid", p))
             => (/\ IsNotFound(resp')
                 /\ txlogs' = txlogs /\ users' = users
                 /\ pending_users' = pending_users)]_vars

\* C7 witness: a pay call was answered "User not found" while a User, a
\* PendingRequest and a Transaction exist.
C7_Witness ==
    /\ resp = Reply("pay", 404, "User not found")
    /\ Len(users) = 1 /\ Len(pending_users) = 1 /\ Len(txlogs) >= 1

\* C8: a log call whose user_id no User carries succeeds: exactly one
\* Transaction with that user_id is appended, no User is created and no
\* total_paid changes, whatever the status.
C8_LogUnknownUser ==
    [][resp'.op = "create_tx" => \A t \in AllTxCreate :
          (/\ ~Known(t.user_id) /\ create_tx("valid", t))
             => (/\ IsSuccess(resp')
                 /\ AppendedOne(t.user_id, t.amount)
                 /\ txlogs'[Len(txlogs')].status = t.status
                 /\ users' = users
                 /\ pending_users' = pending_users)]_vars

\* C8 witness: a success Transaction was logged for a user_id that no User
\* carries, next to a User whose total is still 0.
C8_Witness ==
    /\ resp = Reply("create_tx", 200, "log")
    /\ Len(txlogs) >= 1
    /\ LogSuccess(txlogs[Len(txlogs)].status)
    /\ ~Known(txlogs[Len(txlogs)].user_id)
    /\ Len(users) = 1 /\ users[1].total_paid = 0

(***************************************************************************)
(* Moderation claims, checked under Spec.                                  *)
(***************************************************************************)
\* C11: denying an existing PendingRequest removes exactly that
\* PendingRequest and leaves the Users (and the ledger) as they were; deny
\* and approve for a user_id without a PendingRequest fail with NotFound and
\* change nothing.
C11_DenyDiscards ==
    [][/\ (resp'.op = "deny_pending" => \A i \in UserIds :
             deny_pending("valid", i)
                => IF PendingOf(pending_users, i) # <<>>
                   THEN /\ IsSuccess(resp')
                        /\ PendingOf(pending_users', i) = <<>>
                        /\ Len(pending_users') = Len(pending_users) - 1
                        /\ \A j \in UserIds \ {i} :
                              PendingOf(pending_users', j) =
                                 PendingOf(pending_users, j)
                        /\ users' = users /\ txlogs' = txlogs
                   ELSE IsNotFound(resp') /\ UNCHANGED db)
       /\ (resp'.op = "approve_pending" => \A i \in UserIds :
             (/\ PendingOf(pending_users, i) = <<>>
              /\ approve_pending("valid", i))
                => (IsNotFound(resp') /\ UNCHANGED db))]_vars

\* C11 witness: a denial has just removed the second of two PendingRequests
\* while a User exists.
C11_Witness ==
    /\ resp = Reply("deny_pending", 200, "ok")
    /\ Len(pending_users) = 1
    /\ pending_users[1].user_id = "u1"
    /\ Len(users) = 1

\* some approved User row carries this user_id or this email
TakenApproved(uid, email) ==
    \E k \in 1..Len(users) :
        /\ users[k].status = "approved"
        /\ users[k].user_id = uid \/ users[k].email = email

\* C12: a public submit whose user_id or email is that of an existing
\* approved User fails with Conflict and leaves the PendingRequests exactly
\* as they were (none created, none overwritten).
C12_SubmitConflict ==
    [][resp'.op = "public_submit" => \A u \in UserCreate :
          (/\ TakenApproved(u.user_id, u.email)
           /\ public_submit(u))
             => (/\ IsConflict(resp')
                 /\ pending_users' = pending_users
                 /\ users' = users)]_vars

\* C12 witness: a submit was refused as a conflict while an approved User and
\* a PendingRequest exist.
C12_Witness ==
    /\ resp = Reply("public_submit", 409, "User already exists")
    /\ Len(pending_users) >= 1
    /\ \E k \in 1..Len(users) : users[k].status = "approved"

\* C13: public submit is an upsert keyed on user_id. After every step there
\* is at most one PendingRequest per user_id; an accepted submit leaves
\* exactly one PendingRequest for its user_id, carrying the nick, email,
\* wallet and network of that submit, and leaves the PendingRequests of other
\* user_ids alone; a submit of the payload already pending changes nothing.
C13_SubmitUpserts ==
    [][/\ \A i \in UserIds : Len(PendingOf(pending_users', i)) <= 1
       /\ (resp'.op = "public_submit" => \A u \in UserCreate :
             (/\ IsSuccess(resp') /\ public_submit(u))
                => /\ PendingOf(pending_users', u.user_id) = <<PendingUser(u)>>
                   /\ \A j \in UserIds \ {u.user_id} :
                         PendingOf(pending_users', j) =
                            PendingOf(pending_users, j)
                   /\ (PendingOf(pending_users, u.user_id) = <<PendingUser(u)>>
                          => pending_users' = pending_users))]_vars

\* C13 witness: after an accepted submit two PendingRequests exist, the older
\* row (u2) in front of the younger (u1), each carrying Bob's and Ann's
\* profile in turn.
C13_Witness ==
    /\ resp = Reply("public_submit", 201, "ok")
    /\ Len(pending_users) = 2
    /\ pending_users[1].user_id = "u2" /\ pending_users[1].email = Bob.email
    /\ pending_users[2].user_id = "u1" /\ pending_users[2].email = Ann.email

\* C14: the ledger is append-only: every step keeps every Transaction already
\* written, in place and with the same user_id, amount, status, tx_hash and
\* network, the deletion of the User it references included.
C14_LedgerAppendOnly ==
    [][/\ Len(txlogs') >= Len(txlogs)
       /\ SubSeq(txlogs', 1, Len(txlogs)) = txlogs]_vars

\* C14 witness: a User was paid and has just been deleted; its Transaction is
\* still in the ledger.
C14_Witness ==
    /\ resp = Reply("delete_user", 204, "")
    /\ Len(txlogs) >= 1
    /\ txlogs[1].status = "success"
    /\ ~Known(txlogs[1].user_id)

(***************************************************************************)
(* The total and the ledger.                                               *)
(***************************************************************************)
\* a row of table carries uid / the total_paid of the first such row
KnownIn(table, uid) == \E k \in 1..Len(table) : table[k].user_id = uid
TotalIn(table, uid) == table[FirstIndex(table, uid)].total_paid

\* C15 as claimed: in every reachable state the total_paid of every User is
\* the sum of the amounts of all success Transactions of the ledger that
\* carry its user_id (the status compared after lowercasing).
C15_TotalIsLedgerSum ==
    \A k \in 1..Len(users) :
        users[k].total_paid = SumSuccess(txlogs, users[k].user_id)

\* C15 amended: a User starts with total_paid 0 when its row is created or
\* materialized, and every step changes the total_paid of a User that exists
\* before and after it by exactly the sum of the success Transactions the
\* step appends for its user_id: the total is the sum of the success
\* Transactions written for the user_id since this User row was created.
C15_TotalIsSumSinceCreation ==
    [][\A i \in UserIds :
          LET new == SubSeq(txlogs', Len(txlogs) + 1, Len(txlogs')) IN
          /\ (KnownIn(users, i) /\ KnownIn(users', i))
                => TotalIn(users', i) = TotalIn(users, i) + SumSuccess(new, i)
          /\ (~KnownIn(users, i) /\ KnownIn(users', i))
                => TotalIn(users', i) = 0]_vars

\* C15 witness: a User was paid once after its creation, and the ledger holds
\* a second success Transaction for its user_id from before that.
C15_Witness ==
    /\ Len(txlogs) = 2
    /\ \E k \in 1..Len(users) :
          /\ users[k].total_paid = 1
          /\ SumSuccess(txlogs, users[k].user_id) = 2

(***************************************************************************)
(* Overlapping requests, checked under SpecConc.                           *)
(***************************************************************************)
\* the session of w is at the db.commit() of a record call that bumped a
\* User row, and a row has its key
HoldsBump(w) ==
    /\ sessions[w] # Idle
    /\ sessions[w].op \in {"create_tx", "pay"}
    /\ sessions[w].pc = "commit"
    /\ sessions[w].bump
    /\ Locate("users", sessions[w].k) > 0

\* the session of w is at its db.commit() with a User row to insert
HoldsNewUser(w) ==
    /\ sessions[w] # Idle
    /\ sessions[w].pc = "commit"
    /\ \/ sessions[w].op = "create_user"
       \/ sessions[w].op = "approve_pending" /\ ~sessions[w].exists

\* C16 as claimed: when success record calls for one User overlap, no
\* increment is lost: the commit of each adds its amount to the total_paid
\* the User has at that moment, so that after all of them the total is the
\* initial one plus the sum of all their amounts.
C16_NoLostIncrement ==
    [][\A w \in Workers :
          (HoldsBump(w) /\ commit(w))
             => LET i == Locate("users", sessions[w].k) IN
                users'[i].total_paid =
                   users[i].total_paid + sessions[w].log.amount]_vars

\* C17 as claimed: when two requests that would each create a User with the
\* same user_id or the same email have both passed the existence check, the
\* one that commits second observes Conflict and creates nothing, and no two
\* Users ever share a user_id or an email.
C17_ConcurrentCreateOneWins ==
    [][/\ \A j, k \in 1..Len(users') :
             j # k => /\ users'[j].user_id # users'[k].user_id
                      /\ users'[j].email # users'[k].email
       /\ \A w \in Workers :
             (/\ HoldsNewUser(w)
              /\ Taken(sessions[w].add.user_id, sessions[w].add.email)
              /\ commit(w))
                => (/\ sessions'[w] = Idle
                    /\ IsConflict(resp')
                    /\ users' = users)]_vars

\* the session of w makes a round trip in this step
Moves(w) == sessions[w] # Idle /\ sessions'[w] # sessions[w]

\* the session of w runs its db.commit() in this step
Commits(w) == Moves(w) /\ sessions[w].pc = "commit" /\ commit(w)

\* C18: every multi-step mutation is all-or-nothing. In every step,
\* (a) a step in which a request ends with a failure, its death between two
\*     round trips and a failed db.commit() included, and a step in which a
\*     request is refused or only queries, change no table;
\* (b) the db.commit() of a record call appends its Transaction together
\*     with the write of the balance its request computed, on the User row
\*     its key addresses, or fails and writes neither; and a total_paid
\*     changes only together with the append of a success Transaction;
\* (c) the db.commit() of an approval that found no User inserts its User
\*     together with the removal of the PendingRequest row its key
\*     addresses (when there is one), or fails and writes neither; and a
\*     User enters the registry while a PendingRequest leaves only in such
\*     a step.
C18_AllOrNothing ==
    [][/\ \A w \in Workers :
             (Moves(w) /\ sessions'[w] = Idle /\ IsFailure(resp'))
                => UNCHANGED db
       /\ (\A w \in Workers : ~Moves(w) \/ sessions[w].pc = "select")
             => UNCHANGED db
       /\ (\E w \in Workers : sessions[w] = Idle /\ sessions'[w] # Idle)
             => UNCHANGED db
       /\ \A w \in Workers :
             (Commits(w) /\ sessions[w].op \in {"create_tx", "pay"})
                => LET c == sessions[w] IN
                   \/ /\ txlogs' = Append(txlogs, c.log)
                      /\ pending_users' = pending_users
                      /\ Len(users') = Len(users)
                      /\ c.total # c.read
                            => users' = [users EXCEPT
                                  ![Locate("users", c.k)].total_paid = c.total]
                      /\ c.total = c.read => users' = users
                   \/ /\ sessions'[w] = Idle
                      /\ IsFailure(resp')
                      /\ UNCHANGED db
       /\ (/\ Len(users') = Len(users)
           /\ \E k \in 1..Len(users) : users'[k].total_paid # users[k].total_paid)
             => /\ Len(txlogs') = Len(txlogs) + 1
                /\ Lower(txlogs'[Len(txlogs')].status) = "success"
       /\ \A w \in Workers :
             (Commits(w) /\ sessions[w].op = "approve_pending")
                => LET c == sessions[w]
                       i == Locate("pending_users", c.pk)
                       gone == IF i > 0 THEN Remove(pending_users, i)
                                        ELSE pending_users
                   IN \/ /\ ~c.exists
                         /\ users' = Append(users, c.add)
                         /\ pending_users' = gone
                         /\ txlogs' = txlogs
                      \/ /\ c.exists
                         /\ resp' = Reply("approve_pending", 200, "already_present")
                         /\ users' = users
                         /\ pending_users' = gone
                         /\ txlogs' = txlogs
                      \/ /\ sessions'[w] = Idle
                         /\ IsFailure(resp')
                         /\ UNCHANGED db
       /\ (Len(users') > Len(users) /\ Len(pending_users') # Len(pending_users))
             => \E w \in Workers :
                   /\ Commits(w)
                   /\ sessions[w].op = "approve_pending"
                   /\ Locate("pending_users", sessions[w].pk) > 0
                   /\ users' = Append(users, sessions[w].add)
                   /\ pending_users' =
                         Remove(pending_users,
                                Locate("pending_users", sessions[w].pk))]_vars

\* C18 witness: a pay request lost its User to a delete between its query
\* and its db.commit(), after another pay had committed: the failed commit
\* left neither its Transaction nor its increment.
C18_Witness ==
    /\ resp = Reply("pay", 500, "StaleDataError")
    /\ Len(txlogs) = 1
    /\ users = <<>>

(***************************************************************************)
(* The authentication boundary, checked under SpecAuth.                    *)
(***************************************************************************)
IsUnauthorized(r) == r.code = 401

\* the credentials for which the session check fails
Rejected == Credentials \ {"valid"}

\* the step is answered with Unauthorized and changes no table
Barred == IsUnauthorized(resp') /\ UNCHANGED db

\* C19: a request whose session check fails is answered with Unauthorized
\* and leaves Users, PendingRequests and ledger unchanged, on every route
\* but the public submit; a public submit, which carries no session,
\* changes nothing but the PendingRequests.
C19_UnauthenticatedChangesNothing ==
    [][/\ (resp'.op = "create_user" =>
             \A cred \in Rejected, u \in LedgerUserCreate :
                create_user(cred, u) => Barred)
       /\ (resp'.op = "list_users" =>
             \A cred \in Rejected : list_users(cred) => Barred)
       /\ (resp'.op = "get_user" =>
             \A cred \in Rejected, i \in UserIds \cup {"pending"} :
                get_user(cred, i) => Barred)
       /\ (resp'.op = "delete_user" =>
             \A cred \in Rejected, i \in UserIds :
                delete_user(cred, i) => Barred)
       /\ (resp'.op = "update_user_status" =>
             \A cred \in Rejected, i \in UserIds, st \in UserStatus :
                update_user_status(cred, i, st) => Barred)
       /\ (resp'.op = "approve_pending" =>
             \A cred \in Rejected, i \in UserIds :
                approve_pending(cred, i) => Barred)
       /\ (resp'.op = "deny_pending" =>
             \A cred \in Rejected, i \in UserIds :
                deny_pending(cred, i) => Barred)
       /\ (resp'.op = "create_tx" =>
             \A cred \in Rejected, t \in AuthTxCreate :
                create_tx(cred, t) => Barred)
       /\ (resp'.op = "pay" =>
             \A cred \in Rejected, p \in AuthPayIn : pay(cred, p) => Barred)
       /\ (resp'.op = "tx_by_user" =>
             \A cred \in Rejected, i \in UserIds :
                tx_by_user(cred, i) => Barred)
       /\ (resp'.op = "public_submit" =>
             \A u \in LedgerUserCreate :
                public_submit(u) => (users' = users /\ txlogs' = txlogs))]_vars

\* C19 witness: a pay request with a token that does not decode was turned
\* away while a User, a PendingRequest and a Transaction exist.
C19_Witness ==
    /\ resp = Reply("pay", 401, "Invalid or expired session")
    /\ Len(users) = 1 /\ Len(pending_users) = 1 /\ Len(txlogs) = 1

(***************************************************************************)
(* The sign of the total, checked under SpecLedger.                        *)
(***************************************************************************)
\* C20 as claimed: in every reachable state the total_paid of every User is
\* non-negative (it starts at 0 and no operation decreases it).
C20_TotalNonNegative ==
    \A k \in 1..Len(users) : users[k].total_paid >= 0

(***************************************************************************)
(* Frame of the registry operations, checked under Spec.                   *)
(***************************************************************************)
\* C21: update_user_status on an existing User sets its status to the given
\* one of pending, approved, denied, whatever the status was, and changes
\* nothing else: the other fields of that User, the other Users, the
\* PendingRequests and the ledger stay as they were; for a user_id no User
\* carries it fails with NotFound and changes nothing.
C21_StatusUpdateFrame ==
    [][resp'.op = "update_user_status" => \A i \in UserIds, st \in UserStatus :
          update_user_status("valid", i, st)
             => IF Known(i)
                THEN /\ IsSuccess(resp')
                     /\ users' = [users EXCEPT ![RowOf(i)].status = st]
                     /\ pending_users' = pending_users
                     /\ txlogs' = txlogs
                ELSE IsNotFound(resp') /\ UNCHANGED db]_vars

\* C21 witness: a paid User has just been moved to denied while another User,
\* still approved, exists.
C21_Witness ==
    /\ resp = Reply("update_user_status", 200, "user")
    /\ Len(users) = 2
    /\ \E k \in 1..2 : users[k].status = "denied" /\ users[k].total_paid = 1
    /\ \E k \in 1..2 : users[k].status = "approved"

\* C22: delete_user on an existing User removes exactly that User: the other
\* Users keep their rows and their order, the PendingRequests and the
\* Transactions, those of the deleted user_id included, are unchanged; for a
\* user_id no User carries it fails with NotFound and changes nothing.
C22_DeleteFrame ==
    [][resp'.op = "delete_user" => \A i \in UserIds :
          delete_user("valid", i)
             => IF Known(i)
                THEN /\ IsSuccess(resp')
                     /\ users' = Remove(users, RowOf(i))
                     /\ ~KnownIn(users', i)
                     /\ pending_users' = pending_users
                     /\ txlogs' = txlogs
                ELSE IsNotFound(resp') /\ UNCHANGED db]_vars

\* C22 witness: a User has just been deleted; another User, a PendingRequest
\* and a Transaction of the deleted user_id remain.
C22_Witness ==
    /\ resp = Reply("delete_user", 204, "")
    /\ Len(users) = 1
    /\ \E k \in 1..Len(pending_users) : ~Known(pending_users[k].user_id)
    /\ \E k \in 1..Len(txlogs) :
          ~Known(txlogs[k].user_id) /\ txlogs[k].status = "success"

(***************************************************************************)
(* The stored status.                                                      *)
(***************************************************************************)
\* C23 as claimed: every Transaction is stored with its status in lowercase,
\* and the Transactions that caused a balance increment are exactly those
\* stored with status "success": a step that changes a total_paid appends a
\* Transaction stored as "success", and a step that appends a Transaction
\* stored as "success" for an existing User changes that User's total_paid.
C23_StoredStatusNormalized ==
    [][/\ \A k \in 1..Len(txlogs') : txlogs'[k].status = Lower(txlogs'[k].status)
       /\ (\E i \in UserIds :
              /\ KnownIn(users, i) /\ KnownIn(users', i)
              /\ TotalIn(users', i) # TotalIn(users, i))
             => /\ Len(txlogs') = Len(txlogs) + 1
                /\ txlogs'[Len(txlogs')].status = "success"
       /\ (/\ Len(txlogs') = Len(txlogs) + 1
           /\ txlogs'[Len(txlogs')].status = "success"
           /\ Known(txlogs'[Len(txlogs')].user_id))
             => TotalIn(users', txlogs'[Len(txlogs')].user_id) #
                   TotalIn(users, txlogs'[Len(txlogs')].user_id)]_vars

(***************************************************************************)
(* Re-entering moderation, checked under Spec.                             *)
(***************************************************************************)
\* some User row whose status is pending or denied carries this user_id or
\* this email
TakenUnapproved(uid, email) ==
    \E k \in 1..Len(users) :
        /\ users[k].status \in {"pending", "denied"}
        /\ users[k].user_id = uid \/ users[k].email = email

\* C25: a public submit is blocked by the existence of a User with the same
\* user_id or email whatever its status: while such a User has status
\* pending or denied the submit is refused with Conflict and the
\* PendingRequests stay as they were; and a step that creates or overwrites a
\* PendingRequest does so for a user_id and an email that no User carries,
\* so an identity re-enters moderation only after its User is deleted.
C25_SubmitBlockedWhateverStatus ==
    [][resp'.op = "public_submit" =>
          /\ \A u \in UserCreate :
                (/\ TakenUnapproved(u.user_id, u.email)
                 /\ public_submit(u))
                   => (/\ IsConflict(resp')
                       /\ pending_users' = pending_users
                       /\ users' = users)
          /\ pending_users' # pending_users
                => \A k \in 1..Len(pending_users') :
                      (k > Len(pending_users)
                          \/ pending_users'[k] # pending_users[k])
                         => ~Taken(pending_users'[k].user_id,
                                   pending_users'[k].email)]_vars

\* C25 witness: a submit was refused while the only User is denied and no
\* PendingRequest exists.
C25_Witness ==
    /\ resp = Reply("public_submit", 409, "User already exists")
    /\ Len(users) = 1 /\ users[1].status = "denied"
    /\ pending_users = <<>>

(***************************************************************************)
(* The status of a created User, checked under SpecCreate.                 *)
(***************************************************************************)
\* the step appended one User row, built from the body, with this status
CreatedWith(body, st) ==
    /\ IsSuccess(resp')
    /\ users' = Append(users, [User(ParseUserCreate(body)) EXCEPT !.status = st])

\* C24 as claimed: an admin create-user request for a free identity produces
\* a User with status approved when the body carries no status, a User with
\* exactly the given status when it carries pending, approved or denied, and
\* fails with InvalidArgument without creating a User when it carries any
\* other status.
C24_CreateHonoursStatus ==
    [][resp'.op = "create_user" => \A body \in UserCreateBodies :
          (/\ ~Taken(body.user_id, body.email)
           /\ post_users("valid", body))
             => CASE body.status = "absent" -> CreatedWith(body, "approved")
                  [] body.status \in UserStatus -> CreatedWith(body, body.status)
                  [] OTHER -> IsInvalidArgument(resp') /\ users' = users]_vars
====
